---------------------------- MODULE Spec2Model ----------------------------
(***************************************************************************)
(* Model of app.py: a Streamlit script that downloads daily closing        *)
(* prices, keeps the Friday rows, computes weekly percentage returns,      *)
(* fits a two-state Gaussian HMM on them, decodes the state path and       *)
(* labels the two states 'High Vol' / 'Low Vol' by comparing the sample    *)
(* variance of the returns decoded into each state.                        *)
(*                                                                         *)
(* The script runs top to bottom; pc is its position.  Prices are 0 and    *)
(* powers of two, so that every return is a float64 without rounding: a    *)
(* number is the exact rational [kind, num, den] or one of the two         *)
(* non-finite floats the computation can produce from non-negative prices  *)
(* (+inf and NaN).  The variance is where float64 rounds: its value        *)
(* carries, besides the exact rational, the rank err of the computed       *)
(* double among the doubles around that rational (see Var).                *)
(* hmmlearn's fit and predict are library calls: the outcome of training   *)
(* (how it stopped) and the decoded path are nondeterministic choices.     *)
(***************************************************************************)
EXTENDS Integers, Sequences, FiniteSets, TLC

VARIABLES pc, df, fridays, returns_array, fitInvoked, iter, fitStop,
          states, var_0, var_1, labels, fridays_state, page, dataframe,
          retried

vars == <<pc, df, fridays, returns_array, fitInvoked, iter, fitStop,
          states, var_0, var_1, labels, fridays_state, page, dataframe,
          retried>>

(***************************************************************************)
(* Bounds of the model.                                                    *)
(***************************************************************************)
\* Most rows a download holds.
MaxRows == 5
\* Closing prices are 0 and the powers of two up to 2^MaxPriceExp, so that
\* every return is exactly representable in binary floating point.
MaxPriceExp == 1
\* Rows of a download in the step-by-step training specification.
MaxRowsEM == 3
\* Rows of a download, and largest price exponent, in the labelling
\* specification: seven Friday rows give six returns, three per state.
MaxFridays == 7
MaxLabelPriceExp == 2

(***************************************************************************)
(* Program constants.                                                      *)
(***************************************************************************)
\* df['weekday'] == 4 : pandas dayofweek of a Friday (Monday is 0).
FRIDAY == 4
\* GaussianHMM(n_components=2, ...)
n_components == 2
\* GaussianHMM(..., n_iter=10000, ...): the cap on EM iterations.
n_iter == 10000

HighVol == "High Vol"
LowVol == "Low Vol"

(***************************************************************************)
(* Exact arithmetic standing for the float computation.                    *)
(***************************************************************************)
Abs(x) == IF x < 0 THEN -x ELSE x

RECURSIVE GCD(_, _)
GCD(a, b) == IF b = 0 THEN a ELSE GCD(b, a % b)

RECURSIVE Pow2(_)
Pow2(k) == IF k = 0 THEN 1 ELSE 2 * Pow2(k - 1)

NaN == [kind |-> "nan", num |-> 0, den |-> 1]
PosInf == [kind |-> "inf", num |-> 1, den |-> 1]

\* The finite number n/d (d # 0), in lowest terms with a positive denominator.
Rat(n, d) ==
    LET g == GCD(Abs(n), Abs(d))
        s == IF d < 0 THEN -1 ELSE 1
    IN  [kind |-> "fin", num |-> (s * n) \div g, den |-> (s * d) \div g]

IsFinite(x) == x.kind = "fin"

\* Float division a / b of two non-negative numbers: x/0 is +inf, 0/0 is NaN.
Div(a, b) ==
    IF b # 0 THEN Rat(a, b)
    ELSE IF a = 0 THEN NaN ELSE PosInf

\* x - 1 and x * 100 on floats.
MinusOne(x) == IF IsFinite(x) THEN Rat(x.num - x.den, x.den) ELSE x
Times100(x) == IF IsFinite(x) THEN Rat(100 * x.num, x.den) ELSE x

\* A variance as Series.var() returns it: NaN, or the double computed for
\* the exact value num/den (>= 0).  err orders the doubles that the float
\* computation returns for one exact value: 0 is the correctly rounded
\* double, -1 a double below it and 1 a double above it; three ranks are
\* enough to order the two results the script compares.
VarNaN == [kind |-> "nan", num |-> 0, den |-> 1, err |-> 0]
Rounded(x, e) == [kind |-> "fin", num |-> x.num, den |-> x.den, err |-> e]

\* var_0 > var_1 on two variances: false as soon as either side is NaN.
\* Different exact values of the model's inputs are many orders of
\* magnitude further apart than the rounding error, so they compare as
\* the rationals do (whole parts first, then the fractions); doubles
\* computed for the same exact value compare by their rank.
GT(x, y) ==
    IF x.kind = "nan" \/ y.kind = "nan" THEN FALSE
    ELSE LET qx == x.num \div x.den
             qy == y.num \div y.den
             fx == (x.num % x.den) * y.den
             fy == (y.num % y.den) * x.den
         IN  \/ qx > qy
             \/ qx = qy /\ fx > fy
             \/ qx = qy /\ fx = fy /\ x.err > y.err

\* n is a power of two (n >= 1).
RECURSIVE IsPow2(_)
IsPow2(n) == IF n = 1 THEN TRUE ELSE n % 2 = 0 /\ IsPow2(n \div 2)


(***************************************************************************)
(* Sequence helpers.                                                       *)
(***************************************************************************)
RECURSIVE SumSeq(_)
SumSeq(s) == IF s = <<>> THEN 0 ELSE Head(s) + SumSeq(Tail(s))

RECURSIVE LCMDen(_)
LCMDen(xs) ==
    IF xs = <<>> THEN 1
    ELSE LET l == LCMDen(Tail(xs))
             d == Head(xs).den
         IN  (l * d) \div GCD(l, d)

\* s[mask]: the entries of s at the positions where the mask holds.
RECURSIVE BoolIndex(_, _)
BoolIndex(s, mask) ==
    IF s = <<>> THEN <<>>
    ELSE (IF Head(mask) THEN <<Head(s)>> ELSE <<>>)
         \o BoolIndex(Tail(s), Tail(mask))

(***************************************************************************)
(* Inputs: what yf.download may return.  A download is a chronological     *)
(* sequence of daily rows; the model draws Thursday and Friday rows, each  *)
(* dated on the first such weekday after the row before it, so that a      *)
(* week may lack its Friday row (two Thursdays in a row).  Friday closes   *)
(* range over Prices, Thursday closes over two of them.  The labelling     *)
(* specification draws longer downloads of Friday rows only, with one      *)
(* more price, so that each state can hold three returns; a return is a    *)
(* ratio of two consecutive closes, so these downloads all start at the    *)
(* close 1.                                                                *)
(***************************************************************************)
Prices == {0} \cup {Pow2(k) : k \in 0..MaxPriceExp}
LabelPrices == {0} \cup {Pow2(k) : k \in 0..MaxLabelPriceExp}
ThursdayPrices == {Pow2(0), Pow2(1)}
DailyRows ==
    [weekday : {FRIDAY}, close : Prices]
        \cup [weekday : {FRIDAY - 1}, close : ThursdayPrices]
FridayOnlyRows == [weekday : {FRIDAY}, close : LabelPrices]
Downloads(maxRows, rows) == UNION {[1..k -> rows] : k \in 0..maxRows}
FridayDownloads ==
    {rows \in Downloads(MaxFridays, FridayOnlyRows) :
        rows # <<>> => rows[1].close = Pow2(0)}

RECURSIVE DateOf(_, _)
DateOf(rows, i) ==
    IF i = 1 THEN rows[1].weekday
    ELSE LET p == DateOf(rows, i - 1)
         IN  p + ((rows[i].weekday - (p % 7) + 6) % 7) + 1

\* df = yf.download(...)['Close'] ; df['weekday'] = df.index.dayofweek
DataFrameOf(rows) ==
    [i \in 1..Len(rows) |->
        LET d == DateOf(rows, i)
        IN  [date |-> d, close |-> rows[i].close, weekday |-> d % 7]]

(***************************************************************************)
(* Friday sampling and weekly returns (app.py 37-39).                      *)
(***************************************************************************)
\* df[df['weekday'] == 4]
FridayRows_anyday(d) == d
FridayRows(d) == BoolIndex(d, [i \in 1..Len(d) |-> d[i].weekday = FRIDAY])

\* Series.pct_change(): x_t / x_{t-1} - 1, NaN for the first entry.
pct_change(c) ==
    [i \in 1..Len(c) |-> IF i = 1 THEN NaN ELSE MinusOne(Div(c[i], c[i - 1]))]

\* fridays['returns'] = fridays[ticker].pct_change() * 100
WithReturns(rows) ==
    LET pct == pct_change([i \in 1..Len(rows) |-> rows[i].close])
    IN  [i \in 1..Len(rows) |->
            [date |-> rows[i].date, close |-> rows[i].close,
             returns |-> Times100(pct[i])]]

\* .iloc[1:]
iloc_from_0(s) == s
iloc_from_1(s) == IF s = <<>> THEN <<>> ELSE Tail(s)

(***************************************************************************)
(* Training and decoding (app.py 44-48).                                   *)
(***************************************************************************)
\* fridays['returns'].values.reshape(-1, 1)
ReturnsOf(rows) == [i \in 1..Len(rows) |-> rows[i].returns]

\* model.fit raises on an array it cannot train on: the library's input
\* check rejects an empty array and non-finite entries, and its k-means
\* initialisation needs at least n_components samples.
FitRejects(X) ==
    \/ Len(X) < n_components
    \/ \E i \in 1..Len(X) : ~IsFinite(X[i])

(***************************************************************************)
(* Labelling (app.py 50-57).                                               *)
(***************************************************************************)
\* Series.var(): sample variance (ddof = 1) of the non-NaN entries; NaN
\* when fewer than two remain or when an infinite entry is among them.
\* pandas computes it in float64 in two passes,
\*     avg = sum / n ; sqr = (avg - values) ** 2 ; sqr.sum() / (n - 1)
\* The returns are dyadic (L is a power of two).  When the mean is dyadic
\* too, avg, the differences, their squares and the sum are exact and the
\* last division rounds correctly: the result is the double nearest to
\* the exact variance.  When the mean is not dyadic (say n = 3 and a sum
\* that 3 does not divide), avg is rounded and the error goes through the
\* squares: the result is a double a few units in the last place from the
\* exact variance, on a side that depends on the values, on their order
\* and on the order in which the library adds them up (numpy's reduction,
\* or bottleneck's loop when it is installed).  Var is the set of the
\* values the call can return.
Var(xs0) ==
    LET xs == BoolIndex(xs0, [i \in 1..Len(xs0) |-> xs0[i].kind # "nan"])
        n  == Len(xs)
    IN  IF n < 2 \/ (\E i \in 1..n : xs[i].kind = "inf") THEN {VarNaN}
        ELSE LET L  == LCMDen(xs)
                 a  == [i \in 1..n |-> xs[i].num * (L \div xs[i].den)]
                 S1 == SumSeq(a)
                 \* sum of (x - mean)^2, scaled by (n L)^2
                 SS == SumSeq([i \in 1..n |-> (n * a[i] - S1) * (n * a[i] - S1)])
                 meanExact == IsPow2(n \div GCD(n, Abs(S1)))
             IN  {Rounded(Rat(SS, n * n * (n - 1) * L * L), e) :
                     e \in IF meanExact THEN {0} ELSE {-1, 0, 1}}

\* The same values with the opposite sign.
Negated(xs) ==
    [i \in 1..Len(xs) |->
        IF IsFinite(xs[i]) THEN Rat(-xs[i].num, xs[i].den) ELSE xs[i]]

\* fridays[states == s]['returns']
ReturnsInState(rows, path, s) ==
    BoolIndex(ReturnsOf(rows), [i \in 1..Len(path) |-> path[i] = s])

\* if var_0 > var_1: labels = {0: 'High Vol', 1: 'Low Vol'}
\* else:             labels = {1: 'High Vol', 0: 'Low Vol'}
LabelMap_flipped(v0, v1) ==
    IF GT(v0, v1) THEN (0 :> LowVol @@ 1 :> HighVol)
    ELSE (1 :> LowVol @@ 0 :> HighVol)
LabelMap_ge(v0, v1) ==
    IF ~GT(v1, v0) THEN (0 :> HighVol @@ 1 :> LowVol)
    ELSE (1 :> HighVol @@ 0 :> LowVol)
LabelMap_partial(v0, v1) ==
    IF GT(v0, v1) THEN (0 :> HighVol) ELSE (1 :> HighVol)
LabelMap(v0, v1) ==
    IF GT(v0, v1) THEN (0 :> HighVol @@ 1 :> LowVol)
    ELSE (1 :> HighVol @@ 0 :> LowVol)

\* pd.Categorical(states).rename_categories(labels): a category that is a
\* key of the mapping is renamed, any other category is kept as it is.
rename_categories(path, mapping) ==
    [i \in 1..Len(path) |->
        IF path[i] \in DOMAIN mapping THEN mapping[path[i]]
        ELSE ToString(path[i])]

(***************************************************************************)
(* The script, one action per step.                                        *)
(***************************************************************************)
Init ==
    /\ pc = "download"
    /\ df = <<>>
    /\ fridays = <<>>
    /\ returns_array = <<>>
    /\ fitInvoked = FALSE
    /\ iter = 0
    /\ fitStop = "none"
    /\ states = <<>>
    /\ var_0 = VarNaN
    /\ var_1 = VarNaN
    /\ labels = <<>>
    /\ fridays_state = <<>>
    /\ page = {"title", "intro", "inputs"}
    /\ dataframe = <<>>
    /\ retried = FALSE

\* app.py 34-35
DownloadFrom(inputs) ==
    /\ pc = "download"
    /\ \E rows \in inputs : df' = DataFrameOf(rows)
    /\ pc' = "sample"
    /\ UNCHANGED <<fridays, returns_array, fitInvoked, iter, fitStop, states,
                   var_0, var_1, labels, fridays_state, page, dataframe, retried>>

Download == DownloadFrom(Downloads(MaxRows, DailyRows))

\* app.py 37-39
SampleFridays ==
    /\ pc = "sample"
    /\ fridays' = iloc_from_1(WithReturns(FridayRows(df)))
    /\ pc' = "fit"
    /\ UNCHANGED <<df, returns_array, fitInvoked, iter, fitStop, states,
                   var_0, var_1, labels, fridays_state, page, dataframe, retried>>

\* An uncaught exception ends the script run; Streamlit shows it on the page.
Raise ==
    /\ pc' = "error"
    /\ page' = page \cup {"exception"}

\* app.py 44-47: the whole of model.fit.  Training either raises or stops,
\* on the convergence tolerance ("tol") or on the iteration cap ("cap");
\* the iterations and the restart inside fit are followed only in SpecEM.
Fit ==
    /\ pc = "fit"
    /\ returns_array' = ReturnsOf(fridays)
    /\ fitInvoked' = TRUE
    /\ \E outcome \in {"raise", "tol", "cap"} :
          /\ FitRejects(returns_array') => outcome = "raise"
          /\ IF outcome = "raise"
             THEN Raise /\ UNCHANGED fitStop
             ELSE /\ fitStop' = outcome
                  /\ pc' = "predict"
                  /\ UNCHANGED page
    /\ UNCHANGED <<df, fridays, iter, states, var_0, var_1, labels,
                   fridays_state, dataframe, retried>>

\* app.py 48: the decoded path, one state index per observation.
Predict ==
    /\ pc = "predict"
    /\ states' \in [1..Len(returns_array) -> 0..(n_components - 1)]
    /\ pc' = "label"
    /\ UNCHANGED <<df, fridays, returns_array, fitInvoked, iter, fitStop,
                   var_0, var_1, labels, fridays_state, page, dataframe, retried>>

\* app.py 50-57.  The two calls of var() run the same float computation:
\* on the same values in the same order they return the same double, and
\* so they do when every value changes its sign (float arithmetic is
\* symmetric in the sign).
Label ==
    /\ pc = "label"
    /\ LET r0 == ReturnsInState(fridays, states, 0)
           r1 == ReturnsInState(fridays, states, 1)
       IN  /\ var_0' \in Var(r0)
           /\ var_1' \in Var(r1)
           /\ (r0 = r1 \/ r0 = Negated(r1)) => var_0' = var_1'
    /\ labels' = LabelMap(var_0', var_1')
    /\ fridays_state' = rename_categories(states, labels')
    /\ pc' = "render"
    /\ UNCHANGED <<df, fridays, returns_array, fitInvoked, iter, fitStop,
                   states, page, dataframe, retried>>

\* tab2.dataframe(fridays, ...): the rows handed to the table.
TableRows(rows, col) ==
    [i \in 1..Len(rows) |->
        [date |-> rows[i].date, close |-> rows[i].close,
         returns |-> rows[i].returns, state |-> col[i]]]

\* app.py 62-109
Render ==
    /\ pc = "render"
    /\ dataframe' = TableRows(fridays, fridays_state)
    /\ page' = page \cup {"chart", "dataframe", "insight", "conclusion"}
    /\ pc' = "done"
    /\ UNCHANGED <<df, fridays, returns_array, fitInvoked, iter, fitStop,
                   states, var_0, var_1, labels, fridays_state, retried>>

Next == Download \/ SampleFridays \/ Fit \/ Predict \/ Label \/ Render

Spec == Init /\ [][Next]_vars

(***************************************************************************)
(* The same script on longer downloads of Friday rows, for the labelling   *)
(* rule: with six returns the decoded path can put three in each state,    *)
(* which is where the float variance rounds.                               *)
(***************************************************************************)
DownloadFridays == DownloadFrom(FridayDownloads)

NextLabel ==
    DownloadFridays \/ SampleFridays \/ Fit \/ Predict \/ Label \/ Render

SpecLabel == Init /\ [][NextLabel]_vars

(***************************************************************************)
(* Training step by step (BaumWelchTrainer).  model.fit runs the EM loop   *)
(*     for iter in range(n_iter): E-step; M-step; stop if converged        *)
(* where the loop is converged once the log-likelihood gain between two    *)
(* consecutive iterations is below the tolerance.  Whether the gain is     *)
(* below the tolerance depends on the float values and is a choice.  The   *)
(* E-step may fail (the sequence has zero likelihood under the current     *)
(* parameters): the trainer may then restart once from a re-randomised     *)
(* initialisation, and otherwise the failure propagates out of fit.  The   *)
(* downloads are Friday rows at two prices: the loop count, not the data,  *)
(* is what this specification follows.                                     *)
(***************************************************************************)
FridayRowsEM == [weekday : {FRIDAY}, close : {Pow2(0), Pow2(1)}]

DownloadEM == DownloadFrom(Downloads(MaxRowsEM, FridayRowsEM))

\* Entry of model.fit: input check and initialisation.
FitBegin ==
    /\ pc = "fit"
    /\ returns_array' = ReturnsOf(fridays)
    /\ fitInvoked' = TRUE
    /\ IF FitRejects(returns_array')
       THEN Raise /\ UNCHANGED <<iter, fitStop>>
       ELSE /\ pc' = "training"
            /\ iter' = 0
            /\ fitStop' = "none"
            /\ UNCHANGED page
    /\ UNCHANGED <<df, fridays, states, var_0, var_1, labels,
                   fridays_state, dataframe, retried>>

\* The stop test after iteration number k: the gain between two consecutive
\* iterations needs two of them.
StopTest_first_iteration(k, belowTol) ==
    IF belowTol THEN "tol"
    ELSE IF k = n_iter THEN "cap"
    ELSE "none"
StopTest(k, belowTol) ==
    IF belowTol /\ k >= 2 THEN "tol"
    ELSE IF k = n_iter THEN "cap"
    ELSE "none"

\* One pass of the loop body: the E-step fails, or the iteration completes
\* and the stop test follows.
EMIterate ==
    /\ pc = "training"
    /\ fitStop = "none"
    /\ iter < n_iter
    /\ \/ \* inference failure, first time: restart from a new initialisation
          /\ ~retried
          /\ retried' = TRUE
          /\ iter' = 0
          /\ UNCHANGED <<pc, fitStop, page>>
       \/ \* inference failure propagates out of fit; the loop is left
          /\ Raise
          /\ iter' = 0
          /\ UNCHANGED <<fitStop, retried>>
       \/ \* E-step and M-step done
          /\ iter' = iter + 1
          /\ \E belowTol \in BOOLEAN : fitStop' = StopTest(iter', belowTol)
          /\ UNCHANGED <<pc, page, retried>>
    /\ UNCHANGED <<df, fridays, returns_array, fitInvoked, states,
                   var_0, var_1, labels, fridays_state, dataframe>>

\* model.fit returns; its loop counter goes out of scope.
FitEnd ==
    /\ pc = "training"
    /\ fitStop # "none"
    /\ pc' = "predict"
    /\ iter' = 0
    /\ UNCHANGED <<df, fridays, returns_array, fitInvoked, fitStop, states,
                   var_0, var_1, labels, fridays_state, page, dataframe,
                   retried>>

NextEM ==
    \/ DownloadEM \/ SampleFridays
    \/ FitBegin \/ EMIterate \/ FitEnd
    \/ Predict \/ Label \/ Render

\* model.fit is a synchronous call: while it is training, the next step of
\* its loop (an iteration, or the return) is taken.
TrainingStep == EMIterate \/ FitEnd

SpecEM == Init /\ [][NextEM]_vars /\ WF_vars(TrainingStep)

(***************************************************************************)
(* Vocabulary of the properties, stated on the downloaded rows and the     *)
(* decoded path without the operators the actions use.                     *)
(***************************************************************************)
\* Positions of the Friday rows of the download, and the k-th of them.
FridayIdx == {i \in 1..Len(df) : df[i].date % 7 = 4}
NthFriday(k) ==
    CHOOSE i \in FridayIdx : Cardinality({j \in FridayIdx : j <= i}) = k

\* r is the float value of 100 * (p - q) / q.
IsPctReturn(r, p, q) ==
    IF q # 0 THEN r.kind = "fin" /\ r.num * q = 100 * (p - q) * r.den
    ELSE IF p # 0 THEN r.kind = "inf"
    ELSE r.kind = "nan"

Sampled == pc \notin {"download", "sample"}
Labelled == pc \in {"render", "done"}

\* Time steps decoded into state s, and the pairwise form of the sample
\* variance of their returns: sum over pairs of (x_i - x_j)^2, which is
\* n (n - 1) times the sample variance (returns scaled to integers).
StepsIn(s) == {i \in 1..Len(states) : states[i] = s}
CountIn(s) == Cardinality(StepsIn(s))
Scaled(i) ==
    returns_array[i].num * (LCMDen(returns_array) \div returns_array[i].den)
RECURSIVE SumSqDiff(_)
SumSqDiff(pairs) ==
    IF pairs = {} THEN 0
    ELSE LET p == CHOOSE q \in pairs : TRUE
             d == Scaled(p[1]) - Scaled(p[2])
         IN  d * d + SumSqDiff(pairs \ {p})
PairSS(s) == SumSqDiff({p \in StepsIn(s) \X StepsIn(s) : p[1] < p[2]})
Pairs2(s) == CountIn(s) * (CountIn(s) - 1)
VarDefined(s) == CountIn(s) >= 2
VarLarger(s, t) ==
    /\ VarDefined(s) /\ VarDefined(t)
    /\ PairSS(s) * Pairs2(t) > PairSS(t) * Pairs2(s)
VarEqual(s, t) ==
    /\ VarDefined(s) /\ VarDefined(t)
    /\ PairSS(s) * Pairs2(t) = PairSS(t) * Pairs2(s)

\* The mean of the returns of state s is a dyadic number, so that the
\* float variance of the state is computed without rounding before its
\* last division.
RECURSIVE SumScaled(_)
SumScaled(steps) ==
    IF steps = {} THEN 0
    ELSE LET i == CHOOSE j \in steps : TRUE
         IN  Scaled(i) + SumScaled(steps \ {i})
RECURSIVE OddPart(_)
OddPart(n) == IF n % 2 = 0 THEN OddPart(n \div 2) ELSE n
MeanIsDyadic(s) == SumScaled(StepsIn(s)) % OddPart(CountIn(s)) = 0

\* The two states hold the same returns in the same order, or the same
\* with the opposite sign.
NthStepIn(s, k) ==
    CHOOSE i \in StepsIn(s) : Cardinality({j \in StepsIn(s) : j <= i}) = k
SameReturns ==
    /\ CountIn(0) = CountIn(1)
    /\ \E sign \in {-1, 1} :
          \A k \in 1..CountIn(0) :
              Scaled(NthStepIn(0, k)) = sign * Scaled(NthStepIn(1, k))

(***************************************************************************)
(* C1  Regime labelling: whenever the returns decoded into one state have  *)
(* the larger sample variance, that state is labelled 'High Vol' and the   *)
(* other 'Low Vol', and every time step carries the label of its state.    *)
(***************************************************************************)
C1_LargerVarianceIsHighVol ==
    Labelled =>
        /\ \A s \in {0, 1} :
              VarLarger(s, 1 - s) =>
                  labels[s] = HighVol /\ labels[1 - s] = LowVol
        /\ \A i \in 1..Len(states) : fridays_state[i] = labels[states[i]]

C1_Witness ==
    /\ pc = "done"
    /\ CountIn(0) >= 3
    /\ CountIn(1) >= 3
    /\ ~MeanIsDyadic(0)
    /\ ~MeanIsDyadic(1)
    /\ VarLarger(0, 1)
    /\ labels[0] = HighVol

(***************************************************************************)
(* C2  Labelling ambiguity, as claimed: a path that visits only one of the *)
(* two states never gets a label on any time step and never reaches the    *)
(* rendering step.                                                         *)
(***************************************************************************)
C2_SingleStatePathIsRejected ==
    (states # <<>> /\ (CountIn(0) = 0 \/ CountIn(1) = 0)) =>
        /\ fridays_state = <<>>
        /\ ~Labelled

(***************************************************************************)
(* C3  Input validation, as claimed: model.fit is never invoked on a       *)
(* return sequence with fewer than 2 observations or a non-finite value.   *)
(***************************************************************************)
C3_NoFitOnInvalidInput ==
    fitInvoked =>
        /\ Len(returns_array) >= 2
        /\ \A i \in 1..Len(returns_array) : returns_array[i].kind = "fin"

(***************************************************************************)
(* C4  Return computation: with P_0..P_m the closes of the Friday rows,    *)
(* the sequence handed to the HMM has exactly m entries and entry t is     *)
(* 100 * (P_t - P_{t-1}) / P_{t-1}; the first price has no entry.          *)
(***************************************************************************)
C4_ReturnsFormula ==
    fitInvoked =>
        LET m == Cardinality(FridayIdx) - 1
        IN  /\ Len(returns_array) = (IF m < 0 THEN 0 ELSE m)
            /\ \A t \in 1..m :
                  IsPctReturn(returns_array[t],
                              df[NthFriday(t + 1)].close,
                              df[NthFriday(t)].close)

C4_Witness ==
    /\ fitInvoked
    /\ Len(returns_array) >= 3
    /\ \E t \in 1..Len(returns_array) :
          returns_array[t].kind = "fin" /\ returns_array[t].num < 0
    /\ \E t \in 1..Len(returns_array) :
          returns_array[t].kind = "fin" /\ returns_array[t].num > 0

(***************************************************************************)
(* C5  Complete labelled output: the table handed to the page has one row  *)
(* per observation fed to the HMM, with that observation's timestamp and   *)
(* return, and each row's label is 'Low Vol' or 'High Vol'.                *)
(***************************************************************************)
C5_CompleteLabelledOutput ==
    pc = "done" =>
        /\ Len(dataframe) = Len(returns_array)
        /\ \A i \in 1..Len(dataframe) :
              /\ dataframe[i].date = df[NthFriday(i + 1)].date
              /\ dataframe[i].returns = returns_array[i]
              /\ dataframe[i].state \in {LowVol, HighVol}

C5_Witness ==
    /\ pc = "done"
    /\ Len(dataframe) >= 3
    /\ \E i \in 1..Len(dataframe) : dataframe[i].state = LowVol
    /\ \E i \in 1..Len(dataframe) : dataframe[i].state = HighVol

(***************************************************************************)
(* C6  Training termination, as claimed: training ends only by stopping    *)
(* on the tolerance or on the cap, so a step out of training is a step     *)
(* into decoding.                                                          *)
(***************************************************************************)
C6_StopsOnlyOnTolOrCap ==
    [][pc = "training" => pc' \in {"training", "predict"}]_vars

(***************************************************************************)
(* C6  Training termination, amended: every run of the EM loop ends.  The  *)
(* loop never runs more than 10000 iterations; it stops on the tolerance   *)
(* (after at least two iterations) or at iteration 10000, or it is cut     *)
(* short by an inference failure, after which it is restarted at most      *)
(* once or the run aborts without decoding.  Decoding starts only after    *)
(* training has stopped on the tolerance or on the cap.                    *)
(***************************************************************************)
C6_TrainingTerminates ==
    /\ [](iter <= 10000)
    /\ [](pc = "training" =>
            /\ fitStop = "cap" => iter = 10000
            /\ fitStop = "tol" => iter >= 2
            /\ fitStop = "none" => iter < 10000)
    /\ [](pc \in {"predict", "label", "render", "done"} =>
            fitStop \in {"tol", "cap"})
    /\ [][pc = "training" => pc' \in {"training", "predict", "error"}]_vars
    /\ [][(pc = "training" /\ pc' = "training" /\ iter' # iter + 1) =>
              (iter' = 0 /\ ~retried /\ retried')]_vars
    /\ [][retried => retried']_vars
    /\ (pc = "training") ~> (pc \in {"predict", "error"})

C6_Witness ==
    /\ pc = "training"
    /\ retried
    /\ fitStop = "cap"
    /\ iter = 10000

(***************************************************************************)
(* C8  Non-convergence handling, as claimed: a run whose training stopped  *)
(* on the iteration cap shows a non-convergence warning with its result.   *)
(***************************************************************************)
C8_CapReachedIsReported ==
    (pc = "done" /\ fitStop = "cap") => "warning" \in page

(***************************************************************************)
(* C9  Weekly anchor: the sampled rows are exactly the Friday rows of the  *)
(* download, in order, with their own closes; a week without a Friday row  *)
(* adds nothing, and each return is taken against the close of the most    *)
(* recent earlier Friday row.                                              *)
(***************************************************************************)
C9_FridaySubsequence ==
    Sampled =>
        LET m == Cardinality(FridayIdx) - 1
        IN  /\ Len(fridays) = (IF m < 0 THEN 0 ELSE m)
            /\ \A k \in 1..m :
                  LET i == NthFriday(k + 1)
                      prev == CHOOSE j \in FridayIdx :
                                 /\ j < i
                                 /\ \A h \in FridayIdx : h < i => h <= j
                  IN  /\ fridays[k].date = df[i].date
                      /\ fridays[k].close = df[i].close
                      /\ IsPctReturn(fridays[k].returns,
                                     df[i].close, df[prev].close)

C9_Witness ==
    /\ Sampled
    /\ \E k \in 1..(Len(fridays) - 1) :
          /\ fridays[k + 1].date - fridays[k].date > 7
          /\ fridays[k + 1].returns.kind = "fin"
          /\ fridays[k + 1].returns.num # 0
    /\ \E i \in 1..Len(df) : df[i].date % 7 # 4

=============================================================================
